---------------------------- MODULE Spec2Model ----------------------------
(***************************************************************************)
(* A model of the genotype data layer of flashpca (src/data.cpp): the      *)
(* PLINK BED decoder, the loaders of class Data, the fold split, the mode  *)
(* switch and the coordinate accessors with their variant cache.           *)
(*                                                                         *)
(* Numbers.  The code computes in double.  The model computes the same     *)
(* expressions exactly: a value is a record [kind, c, s2, dof] that stands *)
(* for c * sqrt(dof) / sqrt(s2) when kind = "fin", and for an IEEE NaN or  *)
(* infinity (of sign c) when kind = "nan" or "inf".  kind = "uninit" is a  *)
(* slot of a buffer that no statement wrote.                               *)
(***************************************************************************)
EXTENDS Integers, Sequences, FiniteSets, TLC

\* ------------------------------------------------------------------------
\* Program constants (data.hpp)
\* ------------------------------------------------------------------------
PACK_DENSITY == 4
PLINK_NA == 3
PLINK_OFFSET == 3
MASK0 == 3
MASK1 == 12
MASK2 == 48
MASK3 == 192
DATA_MODE_TRAIN == 1
DATA_MODE_TEST == 2
COVAR_ACTION_TRAIN_TEST == 0
COVAR_ACTION_TRAIN_ONLY == 1

\* ------------------------------------------------------------------------
\* Bounds of the model
\* ------------------------------------------------------------------------
\* longest input handed to decode_plink in the decoder specification
MaxDecodeLen == 2
\* number of samples (rows of the phenotype file)
MaxN == 3
\* nfolds, the number of cross-validation folds
NFolds == 2
\* number of vectors the cache's memory budget holds
CacheBins == 2
\* columns of the covariate file
MaxCovar == 2

VARIABLES
    N, nsnps, ncovar, np, len, geno_filename, geno_fin,
    Y, X2, covar_actions, folds,
    mask_train, mask_test, Ntrain, Ntest, Ytrain, Ytest,
    cache, mode, Ncurr, mask_curr, ones, zeros,
    ret,
    dec_in, dec_out

dataVars == <<N, nsnps, ncovar, np, len, geno_filename, geno_fin,
              Y, X2, covar_actions, folds>>
foldVars == <<mask_train, mask_test, Ntrain, Ntest, Ytrain, Ytest>>
modeVars == <<mode, Ncurr, mask_curr, ones, zeros>>
decVars == <<dec_in, dec_out>>
vars == <<dataVars, foldVars, modeVars, cache, ret, decVars>>

\* ------------------------------------------------------------------------
\* Integer helpers: C's operators on unsigned values
\* ------------------------------------------------------------------------
RECURSIVE BitAnd(_, _)
\* a & b
BitAnd(a, b) ==
    IF a = 0 \/ b = 0 THEN 0
    ELSE (IF a % 2 = 1 /\ b % 2 = 1 THEN 1 ELSE 0) + 2 * BitAnd(a \div 2, b \div 2)

\* a >> k
Shr(a, k) == a \div (2 ^ k)

\* !x, as an unsigned int
LNot(x) == IF x = 0 THEN 1 ELSE 0

\* ceil((double)a / b)
CeilDiv(a, b) == (a + b - 1) \div b

RECURSIVE SeqSum(_)
SeqSum(s) == IF s = <<>> THEN 0 ELSE Head(s) + SeqSum(Tail(s))

\* how many entries of a boolean vector are true: Eigen's count()
Count(m) == Cardinality({i \in DOMAIN m : m[i]})

\* ------------------------------------------------------------------------
\* decode_plink
\* ------------------------------------------------------------------------
\* a1 = !(geno & 1); a2 = !(geno >> 1); out[k] = (geno == 1) ? 3 : a1 + a2
DecodeField_noMissing(g) == LNot(BitAnd(g, 1)) + LNot(Shr(g, 1))

DecodeField(g) ==
    IF g = 1 THEN 3 ELSE LNot(BitAnd(g, 1)) + LNot(Shr(g, 1))

\* the four codes of one byte, in the order the loop body writes them
DecodeByte(tmp) ==
    << DecodeField(BitAnd(tmp, MASK0)),
       DecodeField(Shr(BitAnd(tmp, MASK1), 2)),
       DecodeField(Shr(BitAnd(tmp, MASK2), 4)),
       DecodeField(Shr(BitAnd(tmp, MASK3), 6)) >>

RECURSIVE decode_plink(_, _)
\* out[PACK_DENSITY * i .. PACK_DENSITY * i + 3] for i = 0 .. n - 1
decode_plink(in, n) ==
    IF n = 0 THEN <<>>
    ELSE decode_plink(in, n - 1) \o DecodeByte(in[n])


\* ------------------------------------------------------------------------
\* Values of type double
\* ------------------------------------------------------------------------
Num(x) == [kind |-> "fin", c |-> x, s2 |-> 1, dof |-> 1]
NaN == [kind |-> "nan", c |-> 0, s2 |-> 0, dof |-> 0]
Inf(sign) == [kind |-> "inf", c |-> sign, s2 |-> 0, dof |-> 0]
Uninit == [kind |-> "uninit", c |-> 0, s2 |-> 0, dof |-> 0]

\* VectorXd::Ones(n), VectorXd::Zero(n)
Ones(n) == [i \in 1..n |-> Num(1)]
Zeros(n) == [i \in 1..n |-> Num(0)]

RECURSIVE SelectRows(_, _, _)
\* the entries x(i), i < n, with mask(i), in index order
SelectRows(x, mask, n) ==
    IF n = 0 THEN <<>>
    ELSE SelectRows(x, mask, n - 1) \o (IF mask[n] THEN <<x[n]>> ELSE <<>>)

\* ------------------------------------------------------------------------
\* The mapped genotype file
\* ------------------------------------------------------------------------
\* the bytes of the files on disk: a 3 byte header, then the packed variants
BedHeader == <<108, 27, 1>>
FileBytes(name) ==
    CASE name = "a.bed" -> BedHeader \o <<120, 85, 198>>
      [] name = "b.bed" -> BedHeader \o <<255, 144>>
      [] OTHER -> <<>>
FileExists(name) == name \in {"a.bed", "b.bed"}
BedFiles == {"a.bed", "b.bed", "missing.bed"}
\* what a read past the end of the mapping may find
StrayBytes == {0, 85}

Closed == [open |-> FALSE, data |-> <<>>]
Mapped(name) == [open |-> TRUE, data |-> FileBytes(name)]

\* data + PLINK_OFFSET + j * np, np bytes, all inside the mapping
SliceInFile(j) == PLINK_OFFSET + (j + 1) * np <= Len(geno_fin.data)
Slice(j) == [b \in 1..np |-> geno_fin.data[PLINK_OFFSET + j * np + b]]
\* the same read when it may run past the mapping
Slices(j) ==
    IF SliceInFile(j) THEN {Slice(j)}
    ELSE { [b \in 1..np |->
              IF PLINK_OFFSET + j * np + b <= Len(geno_fin.data)
              THEN geno_fin.data[PLINK_OFFSET + j * np + b] ELSE s[b]] :
           s \in [1..np -> StrayBytes] }

\* ------------------------------------------------------------------------
\* load_snp_double: select by mask_curr, standardise, impute
\* ------------------------------------------------------------------------
\* sum2 += v * v for the non-missing v, as a multiple of 1 / (k * k)
SumSq(sel, k, sum) ==
    SeqSum([i \in 1..Len(sel) |->
              IF sel[i] # PLINK_NA THEN (sel[i] * k - sum) * (sel[i] * k - sum)
              ELSE 0])

\* (x / k) / sd, where sd = sqrt((s2 / (k * k)) / (ngood - 1)).  ngood - 1 is
\* unsigned: it is 0 for ngood = 1, which makes sd NaN (0 / 0) or infinite, and
\* 2^32 - 1 for ngood = 0, a positive divisor like any other; then s2 = 0
\* makes sd 0, and the quotient 0 / 0 or x / 0.
DivSd(x, s2, ngood) ==
    IF ngood = 1 THEN (IF s2 = 0 THEN NaN ELSE Num(0))
    ELSE IF s2 = 0 THEN (IF x = 0 THEN NaN ELSE Inf(IF x > 0 THEN 1 ELSE -1))
    ELSE [kind |-> "fin", c |-> x, s2 |-> s2, dof |-> ngood - 1]

load_snp_double(bytes, mask, n, ncurr) ==
    LET tmp2 == decode_plink(bytes, Len(bytes))
        \* geno[0 .. k-1]: the codes of the selected samples
        sel == SelectRows(tmp2, mask, n)
        k == Len(sel)
        ngood == Len(SelectSeq(sel, LAMBDA v : v # PLINK_NA))
        sum == SeqSum(SelectSeq(sel, LAMBDA v : v # PLINK_NA))
        \* mean = sum / k; sum2 = s2 / (k * k)
        s2 == SumSq(sel, k, sum)
    IN  \* the loops over geno[0 .. Ncurr-1] read k written slots
        IF k # ncurr THEN [i \in 1..ncurr |-> Uninit]
        ELSE IF ngood = ncurr
        THEN [i \in 1..ncurr |-> DivSd(sel[i] * k - sum, s2, ngood)]
        ELSE [i \in 1..ncurr |->
                IF sel[i] = PLINK_NA THEN DivSd(sum, s2, ngood)
                ELSE DivSd(sel[i] * k - sum, s2, ngood)]

\* load_snp(j) on the bytes of its slice
load_snp(bytes) == load_snp_double(bytes, mask_curr, N, Ncurr)

\* ------------------------------------------------------------------------
\* Cache: variant index -> vector, least recently used first
\* ------------------------------------------------------------------------
NullCache == [null |-> TRUE, n |-> 0, slots |-> <<>>]
CacheNew(n) == [null |-> FALSE, n |-> n, slots |-> <<>>]
CacheKeys(c) == {c.slots[i].key : i \in DOMAIN c.slots}
CacheHas(c, j) == j \in CacheKeys(c)
CacheVal(c, j) ==
    LET i == CHOOSE i \in DOMAIN c.slots : c.slots[i].key = j IN c.slots[i].val
CacheWithout(c, j) == SelectSeq(c.slots, LAMBDA e : e.key # j)
\* get(j, x) on a hit: x is the stored vector, and j becomes the most recent
CacheGet(c, j) ==
    [c EXCEPT !.slots = Append(CacheWithout(c, j), [key |-> j, val |-> CacheVal(c, j)])]
\* put(j, x): evict the least recently used entries until x fits
CachePut(c, j, x) ==
    LET rest == CacheWithout(c, j)
        kept == IF Len(rest) >= CacheBins
                THEN SubSeq(rest, Len(rest) - CacheBins + 2, Len(rest))
                ELSE rest
    IN  [c EXCEPT !.slots = Append(kept, [key |-> j, val |-> x])]

\* ------------------------------------------------------------------------
\* What the last call did: its name and argument, the exception it threw
\* ("none" when it returned), the vector it returned, and the index of the
\* variant slice it decoded (-1 when it decoded none)
\* ------------------------------------------------------------------------
Result(op, arg, err, val, slice) ==
    [op |-> op, arg |-> arg, err |-> err, val |-> val, slice |-> slice]
Returned(op, arg) == Result(op, arg, "none", <<>>, -1)
Threw(op, arg, err) == Result(op, arg, err, <<>>, -1)

\* ------------------------------------------------------------------------
\* The loaders
\* ------------------------------------------------------------------------
\* read_plink_pheno: one row per line; the values themselves are opaque
PhenoRows(n) == [i \in 1..n |-> 100 + i]
CovarRows(n, cols) == [i \in 1..n |-> [c \in 1..cols |-> 10 * c + i]]
PhenoOutcomes == {"ok", "no file", "missing value"}
\* the row counts of the sample files on disk
SampleCounts == {0, MaxN}

\* Data::read_pheno
read_pheno ==
    \E n \in SampleCounts, what \in PhenoOutcomes :
        /\ N' = IF what = "no file" THEN N ELSE n
        /\ Y' = IF what = "ok" THEN PhenoRows(n) ELSE Y
        /\ ret' = IF what = "ok" THEN Returned("read_pheno", n)
                  ELSE IF what = "no file" THEN Threw("read_pheno", n, "io error")
                  ELSE Threw("read_pheno", n, "data error")
        /\ UNCHANGED <<nsnps, ncovar, np, len, geno_filename, geno_fin, X2,
                       covar_actions, folds, foldVars, modeVars, cache, decVars>>

\* Data::read_covar
read_covar ==
    \E n \in SampleCounts, cols \in 1..MaxCovar, what \in PhenoOutcomes :
        /\ N' = IF what = "no file" THEN N ELSE n
        /\ X2' = IF what = "ok" THEN CovarRows(n, IF n = 0 THEN 0 ELSE cols) ELSE X2
        /\ ncovar' = IF what = "ok" THEN (IF n = 0 THEN 0 ELSE cols) ELSE ncovar
        /\ ret' = IF what = "ok" THEN Returned("read_covar", n)
                  ELSE IF what = "no file" THEN Threw("read_covar", n, "io error")
                  ELSE Threw("read_covar", n, "data error")
        /\ UNCHANGED <<nsnps, np, len, geno_filename, geno_fin, Y,
                       covar_actions, folds, foldVars, modeVars, cache, decVars>>

\* the tokens of a covariate action file, and Data::tolower on them
COVAR_ACTION_TRAIN_ONLY_STR == "train-only"
COVAR_ACTION_TRAIN_TEST_STR == "train-test"
ActionTokens == {"train-only", "TRAIN-TEST", "other"}
tolower(v) ==
    CASE v = "TRAIN-TEST" -> "train-test"
      [] v = "TRAIN-ONLY" -> "train-only"
      [] OTHER -> v

\* the loop of read_covar_actions over the lower-cased lines
ParseActions(lines) ==
    [i \in 1..Len(lines) |->
        IF tolower(lines[i]) = COVAR_ACTION_TRAIN_ONLY_STR THEN COVAR_ACTION_TRAIN_ONLY
        ELSE IF tolower(lines[i]) = COVAR_ACTION_TRAIN_TEST_STR THEN COVAR_ACTION_TRAIN_TEST
        ELSE COVAR_ACTION_TRAIN_TEST]

\* an action file of MaxCovar lines: the first covariate is train-only
ActionFile == [i \in 1..MaxCovar |-> IF i = 1 THEN "train-only" ELSE "TRAIN-TEST"]

\* Data::read_covar_actions
read_covar_actions ==
    \E k \in 0..MaxCovar, exists \in BOOLEAN :
      \E lines \in [1..k -> ActionTokens] :
        IF ~exists
        THEN /\ ret' = Threw("read_covar_actions", k, "io error")
             /\ UNCHANGED <<dataVars, foldVars, modeVars, cache, decVars>>
        ELSE IF Len(lines) # ncovar
        THEN /\ ret' = Threw("read_covar_actions", k, "wrong number of rows")
             /\ UNCHANGED <<dataVars, foldVars, modeVars, cache, decVars>>
        ELSE /\ covar_actions' = ParseActions(lines)
             /\ ret' = Returned("read_covar_actions", k)
             /\ UNCHANGED <<N, nsnps, ncovar, np, len, geno_filename, geno_fin, Y, X2,
                            folds, foldVars, modeVars, cache, decVars>>

\* the members mmap_bed has assigned when it returns or throws
MmapBedMembers(filename) ==
    LET length == Len(FileBytes(filename)) - PLINK_OFFSET
        stride == CeilDiv(N, PACK_DENSITY)
    IN  IF ~FileExists(filename)
        THEN [geno_filename |-> filename, geno_fin |-> geno_fin,
              len |-> len, np |-> np, nsnps |-> nsnps, err |-> "io error"]
        ELSE IF N = 0
        THEN [geno_filename |-> filename, geno_fin |-> Mapped(filename),
              len |-> len, np |-> np, nsnps |-> nsnps, err |-> "sample size unknown"]
        ELSE [geno_filename |-> filename, geno_fin |-> Mapped(filename),
              len |-> length, np |-> stride, nsnps |-> length \div stride,
              err |-> "none"]

\* Data::mmap_bed
mmap_bed ==
    \E filename \in BedFiles :
        LET s == MmapBedMembers(filename) IN
        /\ geno_filename' = s.geno_filename
        /\ geno_fin' = s.geno_fin
        /\ len' = s.len
        /\ np' = s.np
        /\ nsnps' = s.nsnps
        /\ ret' = Result("mmap_bed", 0, s.err, <<>>, -1)
        /\ UNCHANGED <<N, ncovar, Y, X2, covar_actions, folds,
                       foldVars, modeVars, cache, decVars>>

\* the fold ids make_folds can draw: ((f + 1) / 2 * nfolds) cast to int, f in [-1, 1]
FoldIds == 0..NFolds
FoldAssignments(n) == [1..n -> FoldIds]

\* ------------------------------------------------------------------------
\* The fold split and the mode switch
\* ------------------------------------------------------------------------
\* mask_train is every sample of a later fold
SplitMasks_laterFolds(fold) ==
    LET test == [i \in 1..N |-> folds[i] = fold]
    IN  [mask_test |-> test,
         mask_train |-> [i \in 1..N |-> folds[i] > fold],
         Ntest |-> Count(test),
         Ntrain |-> N - Count(test)]

\* mask_test, mask_train, Ntest, Ntrain as split_data assigns them
SplitMasks(fold) ==
    LET test == [i \in 1..N |-> folds[i] = fold]
    IN  [mask_test |-> test,
         mask_train |-> [i \in 1..N |-> folds[i] # fold],
         Ntest |-> Count(test),
         Ntrain |-> N - Count(test)]

\* Data::split_data
split_data ==
    \E fold \in FoldIds :
        LET m == SplitMasks(fold) IN
        /\ mask_test' = m.mask_test
        /\ mask_train' = m.mask_train
        /\ Ntest' = m.Ntest
        /\ Ntrain' = m.Ntrain
        /\ Ytrain' = SelectRows(Y, m.mask_train, N)
        /\ Ytest' = SelectRows(Y, [i \in 1..N |-> ~m.mask_train[i]], N)
        /\ cache' = CacheNew(m.Ntrain)
        /\ ret' = Returned("split_data", fold)
        /\ UNCHANGED <<dataVars, modeVars, decVars>>

Modes == {DATA_MODE_TRAIN, DATA_MODE_TEST}

\* Data::set_mode.  Called once split_data has set Ntrain, Ntest and the masks.
set_mode ==
    \E m \in Modes :
        /\ ~cache.null
        /\ mode' = m
        /\ Ncurr' = IF m = DATA_MODE_TRAIN THEN Ntrain ELSE Ntest
        /\ mask_curr' = IF m = DATA_MODE_TRAIN THEN mask_train ELSE mask_test
        /\ ones' = Ones(IF m = DATA_MODE_TRAIN THEN Ntrain ELSE Ntest)
        /\ zeros' = Zeros(IF m = DATA_MODE_TRAIN THEN Ntrain ELSE Ntest)
        /\ ret' = Returned("set_mode", m)
        /\ UNCHANGED <<dataVars, foldVars, cache, decVars>>

\* ------------------------------------------------------------------------
\* The accessors
\* ------------------------------------------------------------------------
\* every request goes through the cache
get_snp_anyMode(j) ==
    IF CacheHas(cache, j)
    THEN [geno |-> CacheVal(cache, j), cache |-> CacheGet(cache, j), slice |-> -1]
    ELSE LET x == load_snp(Slice(j))
         IN  [geno |-> x, cache |-> CachePut(cache, j, x), slice |-> j]

\* Data::get_snp: the vector it returns (and leaves in the member geno, which
\* is read nowhere else), the cache, and the slice it had load_snp decode
get_snp(j) ==
    IF mode = DATA_MODE_TRAIN
    THEN IF CacheHas(cache, j)
         THEN [geno |-> CacheVal(cache, j), cache |-> CacheGet(cache, j), slice |-> -1]
         ELSE LET x == load_snp(Slice(j))
              IN  [geno |-> x, cache |-> CachePut(cache, j, x), slice |-> j]
    ELSE [geno |-> load_snp(Slice(j)), cache |-> cache, slice |-> j]

\* the covariate branch of get_coordinate
Covariate(cidx) ==
    IF mode = DATA_MODE_TEST /\ covar_actions[cidx + 1] = COVAR_ACTION_TRAIN_ONLY
    THEN zeros
    ELSE LET col == SelectRows([i \in 1..N |-> Num(X2[i][cidx + 1])], mask_curr, N)
         IN  [i \in 1..Ncurr |-> IF i <= Len(col) THEN col[i] ELSE Uninit]

\* the coordinates the consumer asks for: intercept, variants, covariates
Coordinates == 0..(nsnps + ncovar)

\* Data::get_coordinate.  Called once set_mode has set the mode.
get_coordinate ==
    \E j \in Coordinates :
        /\ mode \in Modes
        /\ IF j = 0
           THEN /\ ret' = Result("get_coordinate", j, "none", ones, -1)
                /\ UNCHANGED cache
           ELSE IF j <= nsnps
           THEN LET r == get_snp(j - 1) IN
                /\ cache' = r.cache
                /\ ret' = Result("get_coordinate", j, "none", r.geno, r.slice)
           ELSE /\ ret' = Result("get_coordinate", j, "none",
                                 Covariate(j - nsnps - 1), -1)
                /\ UNCHANGED cache
        /\ UNCHANGED <<dataVars, foldVars, modeVars, decVars>>

\* the variant indices a direct caller of load_snp may pass: no statement
\* of load_snp or load_snp_double compares j with nsnps
DirectIndices == 0..nsnps

\* Data::load_snp, called directly
LoadSnpDirect ==
    \E j \in DirectIndices :
      \E bytes \in Slices(j) :
        /\ mode \in Modes
        /\ ret' = Result("load_snp", j, "none", load_snp(bytes), j)
        /\ UNCHANGED <<dataVars, foldVars, modeVars, cache, decVars>>

\* ------------------------------------------------------------------------
\* Specifications
\* ------------------------------------------------------------------------
\* the members after Data::Data().  Those the constructor leaves unset (np,
\* len, mode, Ncurr, Ntrain, Ntest) hold 0: no action reads one of them before
\* a loader, split_data or set_mode has assigned it.
Constructed ==
    /\ N = 0 /\ nsnps = 0 /\ ncovar = 0 /\ np = 0 /\ len = 0
    /\ geno_filename = "" /\ geno_fin = Closed
    /\ Y = <<>> /\ X2 = <<>> /\ covar_actions = <<>> /\ folds = <<>>
    /\ mask_train = <<>> /\ mask_test = <<>> /\ Ntrain = 0 /\ Ntest = 0
    /\ Ytrain = <<>> /\ Ytest = <<>>
    /\ cache = NullCache
    /\ mode = 0 /\ Ncurr = 0 /\ mask_curr = <<>> /\ ones = <<>> /\ zeros = <<>>
    /\ ret = Returned("Data", 0)

DecoderIdle == dec_in = <<>> /\ dec_out = <<>>

\* the loaders, from a freshly constructed object
InitLoad == Constructed /\ DecoderIdle
NextLoad == read_pheno \/ read_covar \/ read_covar_actions \/ mmap_bed
SpecLoad == InitLoad /\ [][NextLoad]_vars

\* the state the loaders leave for MaxN samples, MaxCovar covariates and one
\* of the genotype files; no fold has been split off yet
Loaded ==
    /\ N = MaxN /\ ncovar = MaxCovar
    /\ Y = PhenoRows(MaxN) /\ X2 = CovarRows(MaxN, MaxCovar)
    /\ covar_actions = ParseActions(ActionFile)
    /\ geno_filename \in {f \in BedFiles : FileExists(f)}
    /\ geno_fin = Mapped(geno_filename)
    /\ len = Len(FileBytes(geno_filename)) - PLINK_OFFSET
    /\ np = CeilDiv(MaxN, PACK_DENSITY)
    /\ nsnps = len \div np
    /\ mask_train = <<>> /\ mask_test = <<>> /\ Ntrain = 0 /\ Ntest = 0
    /\ Ytrain = <<>> /\ Ytest = <<>>
    /\ cache = NullCache
    /\ mode = 0 /\ Ncurr = 0 /\ mask_curr = <<>> /\ ones = <<>> /\ zeros = <<>>
    /\ ret = Returned("make_folds", 0)
    /\ DecoderIdle

\* the fold split alone, for every fold assignment make_folds can draw
InitSplit == Loaded /\ folds \in FoldAssignments(MaxN)
NextSplit == split_data \/ set_mode
SpecSplit == InitSplit /\ [][NextSplit]_vars

\* two draws of make_folds: the samples dealt round the folds, and a draw
\* that leaves folds empty and reaches the top fold id
FoldDraws(n) ==
    { [i \in 1..n |-> (i - 1) % NFolds],
      [i \in 1..n |-> IF i = n THEN NFolds ELSE 0] }

\* the data layer in use
Init == Loaded /\ folds \in FoldDraws(MaxN)
Next == split_data \/ set_mode \/ get_coordinate \/ LoadSnpDirect
Spec == Init /\ [][Next]_vars

\* ------------------------------------------------------------------------
\* The decoder on its own
\* ------------------------------------------------------------------------
\* 2-bit patterns 00 00 00 00, 01 01 01 01, 11 10 01 00, and the file's magic byte
ProbeBytes == {0, 85, 228, 27}
Bytes == 0..255
\* inputs of up to MaxDecodeLen bytes: every byte value at every position,
\* among probe bytes
DecodeInputs ==
    {<<>>} \cup
    UNION { { [i \in 1..n |-> IF i = q THEN b ELSE rest[i]] :
                q \in 1..n, b \in Bytes, rest \in [1..n -> ProbeBytes] } :
            n \in 1..MaxDecodeLen }

InitDecode ==
    /\ Constructed
    /\ dec_in \in DecodeInputs
    /\ dec_out = <<>>

\* decode_plink(out, in, n) with n the length of in
DecodeCall ==
    /\ ret.op # "decode_plink"
    /\ dec_out' = decode_plink(dec_in, Len(dec_in))
    /\ ret' = Returned("decode_plink", Len(dec_in))
    /\ UNCHANGED <<dataVars, foldVars, modeVars, cache, dec_in>>

NextDecode == DecodeCall
SpecDecode == InitDecode /\ [][NextDecode]_vars

\* ------------------------------------------------------------------------
\* Properties
\* ------------------------------------------------------------------------
\* the 2-bit field k (0 = lowest) of a byte, and the code the bit-mapping
\* rule gives it: 00 -> 2, 01 -> missing, 10 -> 1, 11 -> 0
FieldOf(byte, k) == (byte \div (4 ^ k)) % 4
RefTable == <<2, 3, 1, 0>>
RuleCode(f) ==
    LET bit0 == f % 2
        bit1 == f \div 2
    IN  IF bit1 = 0 /\ bit0 = 1 THEN 3
        ELSE (IF bit0 = 0 THEN 1 ELSE 0) + (IF bit1 = 0 THEN 1 ELSE 0)

\* C1: decode_plink writes 4 codes per input byte, byte i filling positions
\* 4i .. 4i+3 low field first, and every code is the one the bit-mapping rule
\* (and its table 00 -> 2, 01 -> 3, 10 -> 1, 11 -> 0) gives the 2-bit field.
DecodeMatchesReferenceTable ==
    ret.op = "decode_plink" =>
        /\ Len(dec_out) = 4 * Len(dec_in)
        /\ \A i \in 1..Len(dec_in) : \A k \in 0..3 :
              /\ dec_out[4 * (i - 1) + k + 1] = RuleCode(FieldOf(dec_in[i], k))
              /\ dec_out[4 * (i - 1) + k + 1] = RefTable[FieldOf(dec_in[i], k) + 1]

\* an input of full length whose decoding holds all four codes
DecodeWitness ==
    /\ ret.op = "decode_plink"
    /\ Len(dec_in) = MaxDecodeLen
    /\ {dec_out[i] : i \in DOMAIN dec_out} = {0, 1, 2, 3}

\* a request for variant coordinate j, 1 <= j <= nsnps, has just returned
VariantRequest == ret.op = "get_coordinate" /\ ret.arg \in 1..nsnps
\* a request for a covariate coordinate has just returned
CovariateRequest == ret.op = "get_coordinate" /\ ret.arg > nsnps

\* C2: a variant vector returned in train mode, and every vector in the
\* cache, has length Ntrain and is the standardisation over the mask_train
\* of the most recent split_data.
TrainVectorsFollowCurrentFold ==
    /\ (VariantRequest /\ mode = DATA_MODE_TRAIN) =>
          /\ Len(ret.val) = Ntrain
          /\ ret.val = load_snp_double(Slice(ret.arg - 1), mask_train, N, Ntrain)
    /\ \A i \in DOMAIN cache.slots :
          /\ Len(cache.slots[i].val) = Ntrain
          /\ cache.slots[i].val =
                load_snp_double(Slice(cache.slots[i].key), mask_train, N, Ntrain)

\* C3: after split_data(fold) every sample is in exactly one of mask_train
\* and mask_test, mask_test(i) iff folds(i) = fold, Ntrain and Ntest count
\* the two masks and add up to N; also for a fold that matches no sample.
MaskPartition ==
    ~cache.null =>
        /\ DOMAIN mask_train = 1..N /\ DOMAIN mask_test = 1..N
        /\ \A i \in 1..N : mask_train[i] # mask_test[i]
        /\ Ntrain + Ntest = N
        /\ Ntrain = Count(mask_train)
        /\ Ntest = Count(mask_test)
        /\ ret.op = "split_data" => \A i \in 1..N : mask_test[i] <=> (folds[i] = ret.arg)

\* split_data for a fold that no sample is in
EmptyFoldWitness ==
    /\ ret.op = "split_data"
    /\ N = MaxN
    /\ \A i \in 1..N : folds[i] # ret.arg
    /\ Ntest = 0

\* C4: a variant request in test mode leaves the cache as it was (nothing
\* read into recency, inserted or evicted), and so does set_mode: what a
\* train-mode request finds after switching back is what was cached before.
TestModeLeavesCache ==
    [][ /\ (mode = DATA_MODE_TEST /\ ret'.op = "get_coordinate" /\ ret'.arg \in 1..nsnps)
            => cache' = cache
        /\ ret'.op = "set_mode" => cache' = cache ]_vars

\* a variant was served in test mode while the cache held entries
TestRequestWitness ==
    /\ VariantRequest
    /\ mode = DATA_MODE_TEST
    /\ ret.slice = ret.arg - 1
    /\ Len(cache.slots) = CacheBins

\* the codes of variant j for the samples of the active mask
SelectedCodes(j) == SelectRows(decode_plink(Slice(j), np), mask_curr, N)
NonMissing(sel) == {i \in DOMAIN sel : sel[i] # PLINK_NA}
Degenerate(j) ==
    Len(SelectedCodes(j)) = 0 \/ Cardinality(NonMissing(SelectedCodes(j))) <= 1

\* C5: a request for a variant with at most one non-missing selected sample
\* (or no selected sample) raises a data error and returns no vector.
DegenerateVariantRaises ==
    (VariantRequest /\ Degenerate(ret.arg - 1)) =>
        ret.err = "data error" /\ ret.val = <<>>

\* C6: in test mode a train-only covariate comes back as zeros of length
\* Ntest; otherwise the covariate column restricted to the active mask.
TrainOnlyCovariateZeroInTest ==
    CovariateRequest =>
        LET cidx == ret.arg - nsnps - 1 IN
        IF mode = DATA_MODE_TEST /\ covar_actions[cidx + 1] = COVAR_ACTION_TRAIN_ONLY
        THEN ret.val = Zeros(Ntest)
        ELSE ret.val = SelectRows([i \in 1..N |-> Num(X2[i][cidx + 1])], mask_curr, N)

\* the non-missing selected values of variant j are not all equal
HasSpread(j) ==
    \E a, b \in NonMissing(SelectedCodes(j)) : SelectedCodes(j)[a] # SelectedCodes(j)[b]

\* C7: for a variant with two or more non-missing selected samples and
\* non-zero spread, the non-missing entries load_snp_double produced sum to
\* zero (entry i is c * sqrt(dof / s2) with one dof and s2, so the sum of
\* the c is the sum of v - mean, times the number of selected samples).
NonMissingEntriesHaveZeroMean ==
    (VariantRequest /\ ret.slice = ret.arg - 1
       /\ Cardinality(NonMissing(SelectedCodes(ret.slice))) >= 2
       /\ HasSpread(ret.slice)) =>
        /\ \A i \in DOMAIN ret.val : ret.val[i].kind = "fin"
        /\ SeqSum([i \in DOMAIN ret.val |->
                     IF i \in NonMissing(SelectedCodes(ret.slice))
                     THEN ret.val[i].c ELSE 0]) = 0

\* C8: when mmap_bed throws for N = 0, or read_covar_actions for a wrong row
\* count, no member of the object has been modified.
ConfigErrorLeavesStateUnchanged ==
    [][ (ret' # ret /\ ret'.err \in {"sample size unknown", "wrong number of rows"})
          => UNCHANGED <<geno_filename, geno_fin, len, np, nsnps, covar_actions>> ]_vars

\* the last request was for a train-only covariate in test mode
Suppressed ==
    /\ CovariateRequest
    /\ mode = DATA_MODE_TEST
    /\ covar_actions[ret.arg - nsnps] = COVAR_ACTION_TRAIN_ONLY

\* C9: once split_data and set_mode have run, Ncurr counts mask_curr, ones
\* and zeros have length Ncurr, get_coordinate(0) is all ones over the
\* active subset, and every variant or non-suppressed covariate vector has
\* length Ncurr with every slot written.
ActiveSubsetSizesAgree ==
    mode \in Modes =>
        /\ Ncurr = Count(mask_curr)
        /\ Len(ones) = Ncurr /\ Len(zeros) = Ncurr
        /\ (ret.op = "get_coordinate" /\ ret.arg = 0) => ret.val = Ones(Count(mask_curr))
        /\ (VariantRequest \/ (CovariateRequest /\ ~Suppressed)) =>
              /\ Len(ret.val) = Ncurr
              /\ \A i \in DOMAIN ret.val : ret.val[i].kind # "uninit"

\* C10: every variant slice decoded starts at header + index * np with
\* index < nsnps, and a request for an index >= nsnps fails out of range.
VariantSliceInRange ==
    /\ ret.slice # -1 => (ret.slice < nsnps /\ SliceInFile(ret.slice))
    /\ (ret.op = "load_snp" /\ ret.arg >= nsnps) => ret.err = "out of range"

=============================================================================
